---------------------------- MODULE Spec2Model ----------------------------
(***************************************************************************)
(* VIX strategy data fetchers: expiry calendar, target-delta selection,    *)
(* position manifest and daily position tracking.                          *)
(*                                                                         *)
(* Representation.  A Python date object is its proleptic Gregorian        *)
(* ordinal (date.toordinal()); a 'YYYY-MM-DD' string is the tuple          *)
(* <<year, month, day>> and is compared lexicographically, as Python       *)
(* compares the zero-padded strings; strftime and pd.to_datetime are the   *)
(* conversions between the two.  Deltas are integers in units of 1/10000,  *)
(* prices are integers in cents.  An unknown value (np.nan) is the         *)
(* sentinel NaN: comparisons with it are false and arithmetic on it gives  *)
(* NaN, as in IEEE arithmetic.                                             *)
(***************************************************************************)
EXTENDS Integers, Sequences, FiniteSets, TLC

VARIABLES
    \* ---- expiry calendar generator (get_vix_expiry_calendar) ----
    variant,          \* which class runs the generator: "fetcher" or "final"
    start_date,       \* self.start_date, a datetime (its day ordinal)
    end_date,         \* self.end_date, a datetime (its day ordinal)
    current_date,     \* the loop cursor: [kind |-> "datetime" | "date", ord |-> day]
    expiries,         \* the list being built
    cal_pc,           \* "idle", "loop", "returned", "raised"
    \* ---- selection, manifest and tracking (VIXStrategyDataFetcher) ----
    market,           \* what the gateway holds: a set of daily quotes of securities
    options_df,       \* the discovery DataFrame passed to identify_target_delta_options
    target_options,   \* the DataFrame identify_target_delta_options returned
    reports,          \* the per-expiry lines identify_target_delta_options logged
    manifest,         \* the DataFrame create_position_tracking_manifest returned
    manifest_file,    \* position_tracking_manifest.csv
    position_data,    \* what fetch_historical_data returned to track_specific_positions
    active_positions, \* the DataFrame track_specific_positions returned
    pc,               \* "market", "fetched", "identified", "manifest", "rebuilt", "tracked",
                      \* "final_fetched", "final", "complete_fetched", "complete"
    \* ---- one call of fetch_historical_data, event by event ----
    fetch_pc,         \* "idle", "send", "wait", "returned"
    security_idx,     \* the position of the loop in securities
    all_data,         \* the rows recorded so far
    event_queue,      \* events the session holds for nextEvent, oldest first
    inflight,         \* tickers whose request the gateway has not answered yet
    requests,         \* the tickers of the requests sent, in order
    outcome,          \* the event (or exception) that ended the turn of each security
    \* ---- the gateway session of collect_strategy_data ----
    session,          \* self.session: "none", "created", "started", "stopped"
    collect_pc,       \* "idle", "opening", "spot", "futures", "except", "finally", "returned"
    \* ---- VIXScheduler.daily_collection_job ----
    schedule_config,  \* the dict load_schedule_config returned
    attempt,          \* the loop variable of the job
    attempt_log,      \* what run_vix_collection returned, per attempt made
    sleeps,           \* the attempts after which the job slept the retry delay
    validated,        \* validate_recent_data was called
    job_pc,           \* "idle", "loop", "sleep", "done"
    \* ---- TenYearVolatilityFetcher.collect_ten_year_data ----
    progress,              \* the progress dict of the call
    completed_securities,  \* the set of the call
    failed_securities,     \* the set of the call
    progress_file,         \* the persisted progress file
    ten_idx,               \* the position of the loop in securities
    fetched,               \* the securities fetched by the call, in order
    ten_pc                 \* "idle", "loop", "fetch", "interrupted", "returned"

calVars == <<variant, start_date, end_date, current_date, expiries, cal_pc>>
selVars == <<market, options_df, target_options, reports, manifest, manifest_file,
             position_data, active_positions, pc>>
fetchVars == <<fetch_pc, security_idx, all_data, event_queue, inflight, requests, outcome>>
sessVars == <<session, collect_pc>>
schedVars == <<schedule_config, attempt, attempt_log, sleeps, validated, job_pc>>
tenVars == <<progress, completed_securities, failed_securities, progress_file, ten_idx,
             fetched, ten_pc>>
runVars == <<sessVars, schedVars, tenVars>>
vars == <<variant, start_date, end_date, current_date, expiries, cal_pc,
          market, options_df, target_options, reports, manifest, manifest_file,
          position_data, active_positions, pc,
          fetch_pc, security_idx, all_data, event_queue, inflight, requests, outcome,
          session, collect_pc,
          schedule_config, attempt, attempt_log, sleeps, validated, job_pc,
          progress, completed_securities, failed_securities, progress_file, ten_idx,
          fetched, ten_pc>>

-----------------------------------------------------------------------------
(* Dates: datetime.date arithmetic *)

IsLeap(y) == (y % 4 = 0) /\ ((y % 100 # 0) \/ (y % 400 = 0))

DaysInMonth(y, m) ==
    IF m = 2 THEN (IF IsLeap(y) THEN 29 ELSE 28)
    ELSE IF m \in {4, 6, 9, 11} THEN 30 ELSE 31

\* days before January 1st of year y
DaysBeforeYear(y) ==
    (y - 1) * 365 + ((y - 1) \div 4) - ((y - 1) \div 100) + ((y - 1) \div 400)

\* days of year y before the first day of month m
DaysBeforeMonth(y, m) ==
    <<0, 31, 59, 90, 120, 151, 181, 212, 243, 273, 304, 334>>[m]
        + (IF m > 2 /\ IsLeap(y) THEN 1 ELSE 0)

\* date(y, m, d) as an ordinal
Date(y, m, d) == DaysBeforeYear(y) + DaysBeforeMonth(y, m) + d

\* date.weekday(): Monday is 0, Wednesday is 2
Weekday(ord) == (ord + 6) % 7

\* the year, month and day of an ordinal
Ymd(ord) ==
    LET guess == (ord * 400) \div 146097 + 1
        y == IF DaysBeforeYear(guess) >= ord THEN guess - 1
             ELSE IF DaysBeforeYear(guess + 1) < ord THEN guess + 1
             ELSE guess
        n == ord - DaysBeforeYear(y)
        est == (n + 49) \div 32
        m == IF DaysBeforeMonth(y, est) >= n THEN est - 1 ELSE est
    IN  <<y, m, n - DaysBeforeMonth(y, m)>>

YearOf(ord) == Ymd(ord)[1]
MonthOf(ord) == Ymd(ord)[2]
DayOf(ord) == Ymd(ord)[3]

\* d.strftime('%Y-%m-%d')
Strftime(ord) == Ymd(ord)

\* pd.to_datetime(s) of a 'YYYY-MM-DD' string (and .date())
ToDatetime(s) == Date(s[1], s[2], s[3])

\* s < t and s <= t on 'YYYY-MM-DD' strings
StrLess(s, t) ==
    \/ s[1] < t[1]
    \/ s[1] = t[1] /\ s[2] < t[2]
    \/ s[1] = t[1] /\ s[2] = t[2] /\ s[3] < t[3]

-----------------------------------------------------------------------------
(* Expiry calendar generator *)

MonthCodes == <<"F", "G", "H", "J", "K", "M", "N", "Q", "U", "V", "X", "Z">>

\* the generator with Wednesday taken as weekday 3 (a week that starts on Sunday)
ThirdWednesdaySundayBased(year, month) ==
    LET first_day == Date(year, month, 1)
        first_weekday == Weekday(first_day)
        days_to_first_wed == (3 - first_weekday) % 7
    IN  first_day + days_to_first_wed + 14

\* the third Wednesday of a month
ThirdWednesday(year, month) ==
    LET first_day == Date(year, month, 1)
        first_weekday == Weekday(first_day)
        days_to_first_wed == (2 - first_weekday) % 7
        first_wed == first_day + days_to_first_wed
    IN  first_wed + 14

ExpiryRecord(year, month) ==
    [expiry_date |-> ThirdWednesday(year, month), year |-> year, month |-> month,
     month_code |-> MonthCodes[month]]

\* the step to the next month with the year change landing on February
NextMonthSkippingJanuary(year, month) ==
    IF month = 12 THEN Date(year + 1, 2, 1) ELSE Date(year, month + 1, 1)

\* current_date = date(year + 1, 1, 1) or date(year, month + 1, 1)
NextMonth(year, month) ==
    IF month = 12 THEN Date(year + 1, 1, 1) ELSE Date(year, month + 1, 1)


\* bounds of the calendar runs
FirstYear == 2020
CalYears == 28
MaxYearsBack == 1

\* datetime.now() of a run
NowDays ==
    {Date(y, m, d) : y \in FirstYear..(FirstYear + CalYears - 1), m \in 1..12, d \in {1, 28}}

\* self.start_date = self.end_date - timedelta(days=...) in __init__
StartDate(v, now, years_back) ==
    IF v = "fetcher" THEN now - (years_back * 365 + 60) ELSE now - years_back * 365

\* self.start_date.replace(day=1): a datetime; the other classes take its .date()
FirstCursor(v, start) ==
    [kind |-> IF v = "fetcher" THEN "datetime" ELSE "date",
     ord |-> Date(YearOf(start), MonthOf(start), 1)]

\* the right-hand side of the loop test: self.end_date + timedelta(days=90), a
\* datetime in the fetcher and a date (end_date = self.end_date.date()) elsewhere
LoopBound(v, end) ==
    [kind |-> IF v = "fetcher" THEN "datetime" ELSE "date", ord |-> end + 90]

\* Python orders date with date and datetime with datetime; ordering a date with a
\* datetime raises TypeError.  All datetimes of a run carry the time of day of
\* datetime.now(), so two of them are ordered as their days are.
Comparable(a, b) == a.kind = b.kind

CalInit ==
    /\ variant \in {"fetcher", "final"}
    /\ end_date \in NowDays
    /\ \E years_back \in 0..MaxYearsBack : start_date = StartDate(variant, end_date, years_back)
    /\ current_date = [kind |-> "date", ord |-> 0]
    /\ expiries = <<>>
    /\ cal_pc = "idle"

\* expiries = []; current_date = self.start_date.replace(day=1)
CalBegin ==
    /\ cal_pc = "idle"
    /\ expiries' = <<>>
    /\ current_date' = FirstCursor(variant, start_date)
    /\ cal_pc' = "loop"
    /\ UNCHANGED <<variant, start_date, end_date>>
    /\ UNCHANGED selVars
    /\ UNCHANGED fetchVars
    /\ UNCHANGED runVars

\* one pass of the while loop: the test holds, the month's expiry is appended and
\* the cursor moves to the first day of the next month (always a date)
CalIterate ==
    /\ cal_pc = "loop"
    /\ Comparable(current_date, LoopBound(variant, end_date))
    /\ current_date.ord <= LoopBound(variant, end_date).ord
    /\ LET year == YearOf(current_date.ord)
           month == MonthOf(current_date.ord)
       IN  /\ expiries' = Append(expiries, ExpiryRecord(year, month))
           /\ current_date' = [kind |-> "date", ord |-> NextMonth(year, month)]
    /\ UNCHANGED <<variant, start_date, end_date, cal_pc>>
    /\ UNCHANGED selVars
    /\ UNCHANGED fetchVars
    /\ UNCHANGED runVars

\* the loop test is false: return expiries
CalReturn ==
    /\ cal_pc = "loop"
    /\ Comparable(current_date, LoopBound(variant, end_date))
    /\ current_date.ord > LoopBound(variant, end_date).ord
    /\ cal_pc' = "returned"
    /\ UNCHANGED <<variant, start_date, end_date, current_date, expiries>>
    /\ UNCHANGED selVars
    /\ UNCHANGED fetchVars
    /\ UNCHANGED runVars

\* the loop test compares a date with a datetime: TypeError
CalRaise ==
    /\ cal_pc = "loop"
    /\ ~Comparable(current_date, LoopBound(variant, end_date))
    /\ cal_pc' = "raised"
    /\ UNCHANGED <<variant, start_date, end_date, current_date, expiries>>
    /\ UNCHANGED selVars
    /\ UNCHANGED fetchVars
    /\ UNCHANGED runVars


-----------------------------------------------------------------------------
(* Unknown values and arithmetic on them *)

\* np.nan
NaN == -999999

IsNa(x) == x = NaN

\* a - b, a * b and abs(a) on floats that may be NaN
Sub(a, b) == IF IsNa(a) \/ IsNa(b) THEN NaN ELSE a - b
Mul(a, b) == IF IsNa(a) \/ IsNa(b) THEN NaN ELSE a * b
Abs(a) == IF IsNa(a) THEN NaN ELSE IF a < 0 THEN 0 - a ELSE a

\* series.fillna(0)
FillNa0(x) == IF IsNa(x) THEN 0 ELSE x

\* a > b on floats: false when either side is NaN
Gt(a, b) == ~IsNa(a) /\ ~IsNa(b) /\ a > b

\* row.get(key, default) on a pandas Series
RowGet(row, key, default) == IF key \in DOMAIN row THEN row[key] ELSE default

-----------------------------------------------------------------------------
(* Contract universe *)

\* the ticker with the strike written on the grid of multiples of five
OptionTickerOnFiveGrid(expiry_ord, strike) ==
    LET exp_str == Ymd(expiry_ord)
    IN  <<"VIX", exp_str[1] % 100, exp_str[2], exp_str[3], "C", (strike \div 5) * 5>>

\* f"VIX {exp_str} C {strike:g} Index" with exp_str = strftime('%y%m%d')
OptionTicker(expiry_ord, strike) ==
    LET exp_str == Ymd(expiry_ord)
    IN  <<"VIX", exp_str[1] % 100, exp_str[2], exp_str[3], "C", strike>>

\* one dict of options_tickers
OptionSecurity(exp, strike) ==
    [kind |-> "dict", ticker |-> OptionTicker(exp.expiry_date, strike),
     expiry_date |-> exp.expiry_date, strike |-> strike]

\* for exp in expiries: for strike in strikes: options_tickers.append(...)
OptionsTickers(exps, strikes) ==
    [i \in 1..(Len(exps) * Len(strikes)) |->
        OptionSecurity(exps[((i - 1) \div Len(strikes)) + 1],
                       strikes[((i - 1) % Len(strikes)) + 1])]

\* a bare ticker string passed as a security (track_specific_positions)
StrSecurity(ticker) == [kind |-> "str", ticker |-> ticker]

-----------------------------------------------------------------------------
(* The modelled world: two expiry cycles, two strikes of the ladder, and the  *)
(* trading days around the first expiry                                       *)

\* how many daily quotes the gateway holds
MaxRows == 2

ModelExpiries == <<ExpiryRecord(2025, 8), ExpiryRecord(2025, 9)>>
ModelStrikes == <<20, 25>>
ModelSecurities == OptionsTickers(ModelExpiries, ModelStrikes)
TradeDates == {Date(2025, 8, 19), Date(2025, 8, 20)}

\* the daily quotes the gateway may hold for a security: one per eligibility case.
\* The deltas 0.05, 0.10, 0.50 and 0.5501 are ones on which binary64 arithmetic
\* orders abs(delta - target) against 0.05 as exact arithmetic does.
Quotes ==
    { [delta |-> 1000, volume |-> 1,   mid |-> 200,  last |-> 200],
      [delta |-> 5000, volume |-> 1,   mid |-> 1850, last |-> 1850],
      [delta |-> 500,  volume |-> 1,   mid |-> 100,  last |-> 100],
      [delta |-> 5501, volume |-> 1,   mid |-> 1600, last |-> 1600],
      [delta |-> 5000, volume |-> 1,   mid |-> NaN,  last |-> 1850],
      [delta |-> 1000, volume |-> 1,   mid |-> 0,    last |-> NaN],
      [delta |-> 1000, volume |-> 0,   mid |-> 200,  last |-> 200],
      [delta |-> 5000, volume |-> NaN, mid |-> 1850, last |-> 1850],
      [delta |-> NaN,  volume |-> 1,   mid |-> 200,  last |-> 200],
      [delta |-> 0,    volume |-> 1,   mid |-> 200,  last |-> 200] }

-----------------------------------------------------------------------------
(* fetch_historical_data, at the level of its result *)

RECURSIVE SortedSeq(_)
\* a set of day ordinals as an ascending sequence (the gateway's series order)
SortedSeq(S) ==
    IF S = {} THEN <<>>
    ELSE LET m == CHOOSE x \in S : \A y \in S : x <= y
         IN  <<m>> \o SortedSeq(S \ {m})

\* strikes = sorted(set(list(range(10, 51, 5)) + [12, 15, ..., 48]))
StrikeLadder ==
    SortedSeq({10 + 5 * k : k \in 0..8} \cup {12, 15, 18, 22, 25, 28, 32, 35, 38, 42, 45, 48})

\* f"VIX{exp['month_code']}{year_code} Curncy" with year_code = str(exp['year'])[-2:]
FutureTicker(exp) == <<"VIX", exp.month_code, exp.year % 100, "Curncy">>

\* for exp in expiries: futures_tickers.append(...)
FuturesTickers(exps) ==
    [i \in 1..Len(exps) |->
        [ticker |-> FutureTicker(exps[i]), expiry_date |-> exps[i].expiry_date,
         contract_month |-> <<exps[i].year, exps[i].month>>]]

\* the fieldData element the gateway holds for a ticker and day
FieldData(ticker, day) == CHOOSE fd \in market : fd.ticker = ticker /\ fd.date = day

\* row_data of one fieldData element of a security
RowData(security, fd) ==
    LET base == [date |-> Strftime(fd.date), ticker |-> security.ticker,
                 last |-> fd.last, mid |-> fd.mid, volume |-> fd.volume,
                 delta |-> fd.delta]
    IN  IF security.kind = "dict"
        THEN [expiry_date |-> Strftime(security.expiry_date),
              strike |-> security.strike] @@ base
        ELSE base

\* the days of a security's series that a HistoricalDataRequest with startDate =
\* self.start_date and endDate = self.end_date is answered with
RequestedDays(ticker) ==
    {fd.date : fd \in {x \in market : /\ x.ticker = ticker
                                       /\ start_date <= x.date
                                       /\ x.date <= end_date}}

\* the rows appended for one security: none when the gateway answers with a
\* securityError or the wait times out, else one per day of its series
SecurityRows(security, failed) ==
    IF security.ticker \in failed THEN <<>>
    ELSE LET days == SortedSeq(RequestedDays(security.ticker))
         IN  [j \in 1..Len(days) |-> RowData(security, FieldData(security.ticker, days[j]))]

RECURSIVE FetchFrom(_, _, _)
FetchFrom(securities, i, failed) ==
    IF i > Len(securities) THEN <<>>
    ELSE SecurityRows(securities[i], failed) \o FetchFrom(securities, i + 1, failed)

\* pd.DataFrame(all_data)
FetchHistoricalData(securities, failed) == FetchFrom(securities, 1, failed)


-----------------------------------------------------------------------------
(* fetch_historical_data, event by event *)

\* the securities argument of the call: three contracts
FetchBatch == SubSeq(ModelSecurities, 1, 3)

FetchTickers == {FetchBatch[i].ticker : i \in 1..Len(FetchBatch)}

\* the fieldData element of a security's series for a day
GatewayQuote(ticker, day) ==
    [ticker |-> ticker, date |-> day, delta |-> 1000, volume |-> 1, mid |-> 200, last |-> 200]

\* the series a gateway may answer a request with: no day, or one day
AnswerSeries(ticker) == {<<>>, <<GatewayQuote(ticker, Date(2025, 8, 19))>>}

\* no call is in progress
FetchIdle ==
    /\ fetch_pc = "idle"
    /\ security_idx = 0
    /\ all_data = <<>>
    /\ event_queue = <<>>
    /\ inflight = {}
    /\ requests = <<>>
    /\ outcome = [t \in FetchTickers |-> [type |-> "NONE"]]

\* all_data = []; the loops over the batches and their securities begin
FetchBegin ==
    /\ fetch_pc = "idle"
    /\ fetch_pc' = "send"
    /\ security_idx' = 1
    /\ all_data' = <<>>
    /\ UNCHANGED <<event_queue, inflight, requests, outcome>>
    /\ UNCHANGED calVars
    /\ UNCHANGED selVars
    /\ UNCHANGED runVars

\* createRequest ... self.session.sendRequest(request)
FetchSend ==
    /\ fetch_pc = "send"
    /\ security_idx <= Len(FetchBatch)
    /\ requests' = Append(requests, FetchBatch[security_idx].ticker)
    /\ inflight' = inflight \cup {FetchBatch[security_idx].ticker}
    /\ fetch_pc' = "wait"
    /\ UNCHANGED <<security_idx, all_data, event_queue, outcome>>
    /\ UNCHANGED calVars
    /\ UNCHANGED selVars
    /\ UNCHANGED runVars

\* building or sending the request raises: except Exception logs the error and the
\* loop goes on with the next security
FetchSendRaises ==
    /\ fetch_pc = "send"
    /\ security_idx <= Len(FetchBatch)
    /\ outcome' = [outcome EXCEPT ![FetchBatch[security_idx].ticker] = [type |-> "EXCEPTION"]]
    /\ security_idx' = security_idx + 1
    /\ UNCHANGED <<fetch_pc, all_data, event_queue, inflight, requests>>
    /\ UNCHANGED calVars
    /\ UNCHANGED selVars
    /\ UNCHANGED runVars

\* the gateway delivers a part of its answer to a request ahead of the final event:
\* the first day of the series
\* (events delivered after the call has returned are not read by it)
GatewayPartialResponse ==
    /\ fetch_pc \in {"send", "wait"}
    /\ \E t \in inflight :
          /\ ~\E k \in 1..Len(event_queue) : event_queue[k].ticker = t
          /\ event_queue' = Append(event_queue,
                 [type |-> "PARTIAL_RESPONSE", ticker |-> t, securityError |-> FALSE,
                  fieldData |-> <<GatewayQuote(t, Date(2025, 8, 18))>>])
    /\ UNCHANGED <<fetch_pc, security_idx, all_data, inflight, requests, outcome>>
    /\ UNCHANGED calVars
    /\ UNCHANGED selVars
    /\ UNCHANGED runVars

\* the gateway delivers the final event of its answer to a request: a securityError
\* or the fieldData of the series
GatewayResponse ==
    /\ fetch_pc \in {"send", "wait"}
    /\ \E t \in inflight :
          /\ inflight' = inflight \ {t}
          /\ \/ event_queue' = Append(event_queue,
                    [type |-> "RESPONSE", ticker |-> t, securityError |-> TRUE,
                     fieldData |-> <<>>])
             \/ \E series \in AnswerSeries(t) :
                    event_queue' = Append(event_queue,
                        [type |-> "RESPONSE", ticker |-> t, securityError |-> FALSE,
                         fieldData |-> series])
    /\ UNCHANGED <<fetch_pc, security_idx, all_data, requests, outcome>>
    /\ UNCHANGED calVars
    /\ UNCHANGED selVars
    /\ UNCHANGED runVars

\* the loop abandoned at a securityError
AbortBatch(i) == Len(FetchBatch) + 1

\* the position of the loop after a securityError: break leaves the loop over the
\* messages, the wait ends and the loop over the securities goes on
AfterSecurityError(i) == i + 1

\* nextEvent returns a RESPONSE: on a securityError a warning is logged, else every
\* fieldData element becomes a row under the ticker of the loop; the wait ends
FetchOnResponse ==
    /\ fetch_pc = "wait"
    /\ event_queue # <<>>
    /\ Head(event_queue).type = "RESPONSE"
    /\ LET event == Head(event_queue)
           security == FetchBatch[security_idx]
       IN  /\ all_data' =
                 IF event.securityError THEN all_data
                 ELSE all_data \o [j \in 1..Len(event.fieldData) |->
                                      RowData(security, event.fieldData[j])]
           /\ outcome' = [outcome EXCEPT ![security.ticker] = event]
           /\ security_idx' = IF event.securityError THEN AfterSecurityError(security_idx)
                              ELSE security_idx + 1
    /\ event_queue' = Tail(event_queue)
    /\ fetch_pc' = "send"
    /\ UNCHANGED <<inflight, requests>>
    /\ UNCHANGED calVars
    /\ UNCHANGED selVars
    /\ UNCHANGED runVars

\* nextEvent returns an event that is neither RESPONSE nor TIMEOUT: the loop takes
\* the next event
FetchOnOtherEvent ==
    /\ fetch_pc = "wait"
    /\ event_queue # <<>>
    /\ Head(event_queue).type = "PARTIAL_RESPONSE"
    /\ event_queue' = Tail(event_queue)
    /\ UNCHANGED <<fetch_pc, security_idx, all_data, inflight, requests, outcome>>
    /\ UNCHANGED calVars
    /\ UNCHANGED selVars
    /\ UNCHANGED runVars

\* nextEvent(10000) finds no event in 10 seconds and returns a TIMEOUT: a warning is
\* logged and the wait ends
FetchOnTimeout ==
    /\ fetch_pc = "wait"
    /\ event_queue = <<>>
    /\ outcome' = [outcome EXCEPT ![FetchBatch[security_idx].ticker] = [type |-> "TIMEOUT"]]
    /\ security_idx' = security_idx + 1
    /\ fetch_pc' = "send"
    /\ UNCHANGED <<all_data, event_queue, inflight, requests>>
    /\ UNCHANGED calVars
    /\ UNCHANGED selVars
    /\ UNCHANGED runVars

\* return pd.DataFrame(all_data)
FetchReturn ==
    /\ fetch_pc = "send"
    /\ security_idx > Len(FetchBatch)
    /\ fetch_pc' = "returned"
    /\ UNCHANGED <<security_idx, all_data, event_queue, inflight, requests, outcome>>
    /\ UNCHANGED calVars
    /\ UNCHANGED selVars
    /\ UNCHANGED runVars

-----------------------------------------------------------------------------
(* identify_target_delta_options (VIXStrategyDataFetcher) *)

TargetDeltas == <<10, 50>>

\* target_delta/100 in delta units
TargetDecimal(target_delta) == target_delta * 100

\* "Within 5 delta points": 0.05 in delta units
DeltaTolerance == 500

\* the least of a non-empty set of 'YYYY-MM-DD' strings
MinStr(S) == CHOOSE s \in S : \A t \in S : s = t \/ StrLess(s, t)

RECURSIVE SortedStrs(_)
SortedStrs(S) ==
    IF S = {} THEN <<>> ELSE <<MinStr(S)>> \o SortedStrs(S \ {MinStr(S)})

\* the keys of options_df.groupby('expiry_date'), in the order groupby yields them
GroupKeys(df) == SortedStrs({df[i].expiry_date : i \in 1..Len(df)})

\* the rows of one group, in their order in the frame
Group(df, key) == SelectSeq(df, LAMBDA row : row.expiry_date = key)

\* delta.notna() & (delta > 0) & (volume.fillna(0) > 0)
HasValidData(row) ==
    /\ ~IsNa(row.delta)
    /\ Gt(row.delta, 0)
    /\ Gt(FillNa0(row.volume), 0)

\* abs(entry_options['delta'] - target_delta/100), per row
DeltaDiff(row, target_delta) == Abs(Sub(row.delta, TargetDecimal(target_delta)))

\* the first row within 0.05 of the target (the first row when there is none)
IdxFirstWithin(entry_options, target_delta) ==
    LET within == {i \in 1..Len(entry_options) :
                      Gt(DeltaTolerance, DeltaDiff(entry_options[i], target_delta))}
    IN  IF within = {} THEN 1 ELSE CHOOSE i \in within : \A j \in within : i <= j

\* delta_diff.idxmin(): the first row holding the minimum
IdxMin(entry_options, target_delta) ==
    CHOOSE i \in 1..Len(entry_options) :
        /\ \A j \in 1..Len(entry_options) :
              DeltaDiff(entry_options[i], target_delta) <= DeltaDiff(entry_options[j], target_delta)
        /\ \A j \in 1..(i - 1) :
              DeltaDiff(entry_options[j], target_delta) > DeltaDiff(entry_options[i], target_delta)

\* the test with a tolerance of half a unit of delta
WithinHalf(diff) == diff < 5000

\* the test that accepts the closest contract of a leg
WithinTolerance(diff) == diff < DeltaTolerance

Quantity(target_delta) == IF target_delta = 50 THEN -1 ELSE 2

PositionType(target_delta) == IF target_delta = 50 THEN "SHORT" ELSE "LONG"

\* option_row: a copy of the chosen row with the position's fields set
OptionRow(row, target_delta, first_valid_date, expiry_date) ==
    [target_delta |-> target_delta,
     delta_error |-> DeltaDiff(row, target_delta),
     position_type |-> PositionType(target_delta),
     quantity |-> Quantity(target_delta),
     entry_date |-> first_valid_date,
     expiry_date |-> expiry_date,
     strategy_leg |-> <<target_delta, IF target_delta = 50 THEN "short" ELSE "long">>] @@ row

RECURSIVE LegRows(_, _, _, _)
\* for target_delta in target_deltas: ... target_options.append(option_row)
LegRows(entry_options, k, first_valid_date, expiry_date) ==
    IF k > Len(TargetDeltas) THEN <<>>
    ELSE LET target_delta == TargetDeltas[k]
             closest_idx == IdxMin(entry_options, target_delta)
             found == IF WithinTolerance(DeltaDiff(entry_options[closest_idx], target_delta))
                      THEN <<OptionRow(entry_options[closest_idx], target_delta,
                                       first_valid_date, expiry_date)>>
                      ELSE <<>>
         IN  found \o LegRows(entry_options, k + 1, first_valid_date, expiry_date)

\* the body of the loop over the groups, for one expiry
ExpiryRows(expiry_group, expiry) ==
    LET expiry_date == ToDatetime(expiry)
        valid == SelectSeq(expiry_group, HasValidData)
    IN  IF valid = <<>> THEN <<>>
        ELSE LET first_valid_date == MinStr({valid[i].date : i \in 1..Len(valid)})
                 entry_options == SelectSeq(valid, LAMBDA row : row.date = first_valid_date)
             IN  LegRows(entry_options, 1, first_valid_date, expiry_date)

\* the selector leaving the loop at the first expiry that yields no position
IdentifyStoppingAtUnresolved(df, keys, g) ==
    LET yields(k) == ExpiryRows(Group(df, keys[k]), keys[k]) # <<>>
        stop == IF \E k \in g..Len(keys) : ~yields(k)
                THEN CHOOSE k \in g..Len(keys) :
                         ~yields(k) /\ \A h \in g..(k - 1) : yields(h)
                ELSE Len(keys) + 1
        rows[k \in g..(Len(keys) + 1)] ==
            IF k >= stop THEN <<>>
            ELSE ExpiryRows(Group(df, keys[k]), keys[k]) \o rows[k + 1]
    IN  rows[g]

RECURSIVE IdentifyFrom(_, _, _)
IdentifyFrom(df, keys, g) ==
    IF g > Len(keys) THEN <<>>
    ELSE ExpiryRows(Group(df, keys[g]), keys[g]) \o IdentifyFrom(df, keys, g + 1)

\* pd.DataFrame(target_options)
IdentifyTargetDeltaOptions(df) == IdentifyFrom(df, GroupKeys(df), 1)

\* the line logged for one expiry: none when the group has no valid row (continue),
\* else "both legs" (info) or "Incomplete position - only found [...]" (warning)
ExpiryReport(expiry_group, expiry) ==
    IF SelectSeq(expiry_group, HasValidData) = <<>> THEN <<>>
    ELSE LET rows == ExpiryRows(expiry_group, expiry)
             position_contracts == {rows[i].target_delta : i \in 1..Len(rows)}
         IN  <<[expiry |-> ToDatetime(expiry),
                level |-> IF Cardinality(position_contracts) = 2 THEN "info" ELSE "warning",
                found |-> position_contracts]>>

RECURSIVE ReportsFrom(_, _, _)
ReportsFrom(df, keys, g) ==
    IF g > Len(keys) THEN <<>>
    ELSE ExpiryReport(Group(df, keys[g]), keys[g]) \o ReportsFrom(df, keys, g + 1)

\* the per-expiry log lines of one call, in order
IdentifyReports(df) == ReportsFrom(df, GroupKeys(df), 1)

-----------------------------------------------------------------------------
(* FinalVIXStrategy and CompleteVIXStrategy: snapshot fetch and selector *)

\* (row_data['bid'] + row_data['ask']) / 2
Midpoint(bid, ask) == (bid + ask) \div 2

\* row_data of FinalVIXStrategy.get_current_option_data_with_greeks: the snapshot is
\* dated today; mid is the midpoint of bid and ask when both are known, else last.
\* The gateway's mid quote stands for a bid and an ask at that price.
FinalRowData(option_info, fd) ==
    LET bid == fd.mid
        ask == fd.mid
    IN  [date |-> Strftime(end_date), ticker |-> option_info.ticker,
         expiry_date |-> Strftime(option_info.expiry_date), strike |-> option_info.strike,
         last |-> fd.last, bid |-> bid, ask |-> ask, volume |-> fd.volume,
         delta |-> fd.delta,
         mid |-> IF ~IsNa(bid) /\ ~IsNa(ask) THEN Midpoint(bid, ask) ELSE fd.last]

\* row_data of CompleteVIXStrategy.get_option_data_with_greeks: the column of a
\* field is field.lower().replace('_mid', '').replace('px_', ''), which names
\* PX_MID 'px', PX_LAST 'last', PX_VOLUME 'volume' and DELTA_MID 'delta'
CompleteRowData(option_info, fd) ==
    [date |-> Strftime(end_date), ticker |-> option_info.ticker,
     expiry_date |-> Strftime(option_info.expiry_date), strike |-> option_info.strike,
     last |-> fd.last, px |-> fd.mid, volume |-> fd.volume, delta |-> fd.delta]

RECURSIVE SnapshotFrom(_, _, _)
\* one ReferenceDataRequest per ticker: a row when the gateway holds a current
\* quote of the security, none when it answers with a securityError
SnapshotFrom(option_tickers, i, v) ==
    IF i > Len(option_tickers) THEN <<>>
    ELSE LET option_info == option_tickers[i]
             current == {fd \in market : fd.ticker = option_info.ticker /\ fd.date = end_date}
             row == IF current = {} THEN <<>>
                    ELSE LET fd == CHOOSE x \in current : TRUE
                         IN  IF v = "final" THEN <<FinalRowData(option_info, fd)>>
                             ELSE <<CompleteRowData(option_info, fd)>>
         IN  row \o SnapshotFrom(option_tickers, i + 1, v)

\* the candidates of the first expiry that is not before today
FirstExpiryOptions ==
    LET future_expiries == SelectSeq(ModelExpiries, LAMBDA exp : exp.expiry_date >= end_date)
    IN  IF future_expiries = <<>> THEN <<>>
        ELSE OptionsTickers(<<future_expiries[1]>>, ModelStrikes)

\* the rows a class accepts as candidates
FinalValid(row) ==
    /\ ~IsNa(row.delta) /\ Gt(row.delta, 0) /\ Gt(FillNa0(row.volume), 0)
    /\ ~IsNa(row.mid) /\ Gt(row.mid, 0)

CompleteValid(row) ==
    /\ ~IsNa(row.delta) /\ Gt(row.delta, 0) /\ Gt(FillNa0(row.volume), 0)
    /\ ~IsNa(row.last) /\ Gt(row.last, 0)

\* self.quantities = {10: 2, 50: -1}
Quantities == (10 :> 2) @@ (50 :> -1)

\* position_info of a leg
StrategyPositionInfo(option_row, target_delta, expiry, v) ==
    [ticker |-> option_row.ticker,
     expiry_date |-> expiry,
     target_delta |-> target_delta,
     actual_delta |-> option_row.delta,
     delta_error |-> DeltaDiff(option_row, target_delta),
     strike |-> option_row.strike,
     entry_price |-> IF v = "final" THEN option_row.mid
                     ELSE RowGet(option_row, "mid", RowGet(option_row, "last", NaN)),
     quantity |-> Quantities[target_delta],
     position_type |-> IF target_delta = 50 THEN "SHORT" ELSE "LONG",
     entry_date |-> option_row.date]

RECURSIVE ExpiryPositions(_, _, _, _)
\* expiry_positions, as the list of its values in insertion order
ExpiryPositions(group, k, expiry, v) ==
    IF k > Len(TargetDeltas) THEN <<>>
    ELSE LET target_delta == TargetDeltas[k]
             closest_idx == IdxMin(group, target_delta)
             found == IF WithinTolerance(DeltaDiff(group[closest_idx], target_delta))
                      THEN <<StrategyPositionInfo(group[closest_idx], target_delta, expiry, v)>>
                      ELSE <<>>
         IN  found \o ExpiryPositions(group, k + 1, expiry, v)

\* the legs found appended whether or not both were found
AppendFound(expiry_positions) == expiry_positions

\* if len(expiry_positions) == 2: append both positions
AppendIfBoth(expiry_positions) ==
    IF Len(expiry_positions) = 2 THEN expiry_positions ELSE <<>>

\* the line printed for an expiry
StrategyReport(expiry_positions, expiry) ==
    [expiry |-> expiry,
     level |-> IF Len(expiry_positions) = 2 THEN "info" ELSE "warning",
     found |-> {expiry_positions[i].target_delta : i \in 1..Len(expiry_positions)}]

RECURSIVE FinalFrom(_, _, _, _)
\* the loop over valid_options.groupby('expiry_date'); out is "rows" or "reports"
FinalFrom(valid_options, keys, g, out) ==
    IF g > Len(keys) THEN <<>>
    ELSE LET expiry_positions ==
                 ExpiryPositions(Group(valid_options, keys[g]), 1, keys[g], "final")
         IN  (IF out = "rows" THEN AppendIfBoth(expiry_positions)
              ELSE <<StrategyReport(expiry_positions, keys[g])>>)
             \o FinalFrom(valid_options, keys, g + 1, out)

\* FinalVIXStrategy.identify_target_delta_options
FinalIdentify(df, out) ==
    LET valid_options == SelectSeq(df, FinalValid)
    IN  IF valid_options = <<>> THEN <<>>
        ELSE FinalFrom(valid_options, GroupKeys(valid_options), 1, out)

RECURSIVE CompleteFrom(_, _, _, _)
\* the loop over options_df.groupby('expiry_date')
CompleteFrom(df, keys, g, out) ==
    IF g > Len(keys) THEN <<>>
    ELSE LET valid_options == SelectSeq(Group(df, keys[g]), CompleteValid)
             expiry_positions ==
                 IF valid_options = <<>> THEN <<>>
                 ELSE ExpiryPositions(valid_options, 1, keys[g], "complete")
         IN  (IF valid_options = <<>> THEN <<>>
              ELSE IF out = "rows" THEN AppendIfBoth(expiry_positions)
              ELSE <<StrategyReport(expiry_positions, keys[g])>>)
             \o CompleteFrom(df, keys, g + 1, out)

\* CompleteVIXStrategy.identify_target_delta_options
CompleteIdentify(df, out) == CompleteFrom(df, GroupKeys(df), 1, out)

-----------------------------------------------------------------------------
(* create_position_tracking_manifest *)

\* the roll date left on the expiry day itself
RollDateOnExpiry(expiry_date) == expiry_date

\* roll_date = expiry_date - timedelta(days=1)
RollDate(expiry_date) == expiry_date - 1

\* position_info with the quantity taken from the LONG/SHORT label: one contract
\* long or short
PositionInfoFromLabel(row) ==
    [ticker |-> row.ticker,
     target_delta |-> row.target_delta,
     position_type |-> row.position_type,
     quantity |-> IF row.position_type = "SHORT" THEN -1 ELSE 1,
     entry_date |-> row.entry_date,
     expiry_date |-> row.expiry_date,
     roll_date |-> RollDate(row.expiry_date),
     strike |-> row.strike,
     entry_delta |-> row.delta,
     entry_price |-> RowGet(row, "mid", RowGet(row, "last", NaN))]

\* position_info of one selected row
PositionInfo(row) ==
    [ticker |-> row.ticker,
     target_delta |-> row.target_delta,
     position_type |-> row.position_type,
     quantity |-> row.quantity,
     entry_date |-> row.entry_date,
     expiry_date |-> row.expiry_date,
     roll_date |-> RollDate(row.expiry_date),
     strike |-> row.strike,
     entry_delta |-> row.delta,
     entry_price |-> RowGet(row, "mid", RowGet(row, "last", NaN))]

\* the builder with position_manifest kept from the previous call instead of
\* starting from an empty list
CreateManifestAccumulating(target_delta_df) ==
    manifest \o [i \in 1..Len(target_delta_df) |-> PositionInfo(target_delta_df[i])]

\* position_manifest = []; for _, row in iterrows(): position_manifest.append(...)
CreatePositionTrackingManifest(target_delta_df) ==
    [i \in 1..Len(target_delta_df) |-> PositionInfo(target_delta_df[i])]

-----------------------------------------------------------------------------
(* track_specific_positions *)

RECURSIVE UniqueFrom(_, _)
UniqueFrom(tickers, i) ==
    IF i > Len(tickers) THEN <<>>
    ELSE IF \E j \in 1..(i - 1) : tickers[j] = tickers[i] THEN UniqueFrom(tickers, i + 1)
    ELSE <<tickers[i]>> \o UniqueFrom(tickers, i + 1)

\* position_manifest['ticker'].unique().tolist()
PositionTickers(position_manifest) ==
    UniqueFrom([i \in 1..Len(position_manifest) |-> position_manifest[i].ticker], 1)

\* the manifest columns that the merge brings to a quote row
ManifestColumns(entry) ==
    [target_delta |-> entry.target_delta, position_type |-> entry.position_type,
     quantity |-> entry.quantity, entry_date |-> entry.entry_date,
     roll_date |-> entry.roll_date, entry_price |-> entry.entry_price,
     entry_delta |-> entry.entry_delta]

RECURSIVE MergeFrom(_, _, _)
\* position_data.merge(position_manifest[[...]], on='ticker', how='left')
MergeFrom(data, position_manifest, i) ==
    IF i > Len(data) THEN <<>>
    ELSE LET matches == SelectSeq(position_manifest, LAMBDA e : e.ticker = data[i].ticker)
         IN  [j \in 1..Len(matches) |-> data[i] @@ ManifestColumns(matches[j])]
             \o MergeFrom(data, position_manifest, i + 1)

\* the filter without its upper bound
HeldFromEntry(row) == ToDatetime(row.date) >= ToDatetime(row.entry_date)

\* (date >= entry_date) & (date <= roll_date), after pd.to_datetime of the three
Held(row) ==
    /\ ToDatetime(row.date) >= ToDatetime(row.entry_date)
    /\ ToDatetime(row.date) <= row.roll_date

\* VIX options are $100 multiplier
OptionMultiplier == 100

\* the P&L per contract: price_change * quantity without the multiplier
WithPnlPerContract(row) ==
    LET price_change == Sub(row.mid, row.entry_price)
    IN  [price_change |-> price_change,
         daily_pnl |-> Mul(price_change, row.quantity),
         delta_change |-> Sub(row.delta, row.entry_delta)] @@ row

\* price_change, daily_pnl and delta_change of one held row
WithPnl(row) ==
    LET price_change == Sub(row.mid, row.entry_price)
    IN  [price_change |-> price_change,
         daily_pnl |-> Mul(Mul(price_change, row.quantity), OptionMultiplier),
         delta_change |-> Sub(row.delta, row.entry_delta)] @@ row

\* active_positions, from the frame fetch_historical_data returned
TrackSpecificPositions(data, position_manifest) ==
    IF Len(data) = 0 THEN <<>>
    ELSE LET position_tracking == MergeFrom(data, position_manifest, 1)
             held == SelectSeq(position_tracking, Held)
         IN  [i \in 1..Len(held) |-> WithPnl(held[i])]


-----------------------------------------------------------------------------
(* Selection, manifest and tracking as a state machine *)

\* self.session = None after __init__; collect_strategy_data has not been called
SessionIdle ==
    /\ session = "none"
    /\ collect_pc = "idle"

\* default_config of load_schedule_config; the job has not been called
JobIdle ==
    /\ schedule_config = [retry_attempts |-> 3, retry_delay_minutes |-> 15,
                          data_validation |-> TRUE]
    /\ attempt = 0
    /\ attempt_log = <<>>
    /\ sleeps = {}
    /\ validated = FALSE
    /\ job_pc = "idle"

\* no progress file; collect_ten_year_data has not been called
TenIdle ==
    /\ progress = [completed_securities |-> {}, failed_securities |-> {}]
    /\ completed_securities = {}
    /\ failed_securities = {}
    /\ progress_file = [completed_securities |-> {}, failed_securities |-> {}]
    /\ ten_idx = 0
    /\ fetched = <<>>
    /\ ten_pc = "idle"

RunIdle == SessionIdle /\ JobIdle /\ TenIdle

\* the calendar generator at rest
CalIdle ==
    /\ variant = "fetcher"
    /\ end_date = Date(2025, 8, 20)
    /\ start_date = StartDate("fetcher", end_date, 0)
    /\ current_date = [kind |-> "date", ord |-> 0]
    /\ expiries = <<>>
    /\ cal_pc = "idle"

SelInit ==
    /\ market = {}
    /\ options_df = <<>>
    /\ target_options = <<>>
    /\ reports = <<>>
    /\ manifest = <<>>
    /\ manifest_file = <<>>
    /\ position_data = <<>>
    /\ active_positions = <<>>
    /\ pc = "market"

\* the exchange closes a day: the gateway holds one more daily quote of a security
GatewayPublish ==
    /\ pc = "market"
    /\ Cardinality(market) < MaxRows
    /\ \E i \in 1..Len(ModelSecurities), day \in TradeDates, q \in Quotes :
          /\ ~\E fd \in market : fd.ticker = ModelSecurities[i].ticker /\ fd.date = day
          /\ market' = market \cup {[ticker |-> ModelSecurities[i].ticker, date |-> day] @@ q}
    /\ UNCHANGED <<options_df, target_options, reports, manifest, manifest_file,
                   position_data, active_positions, pc>>
    /\ UNCHANGED calVars
    /\ UNCHANGED fetchVars
    /\ UNCHANGED runVars

\* [opt for opt in options_tickers if opt['expiry_date'] >= self.start_date.date()]
CurrentExpiries(options_tickers) ==
    SelectSeq(options_tickers, LAMBDA opt : opt.expiry_date >= start_date)

\* options_df = self.fetch_historical_data(current_expiries[:200], ...).  A security
\* whose request fails adds no row, which is the frame of a gateway that holds
\* nothing for it.
FetchDiscovery ==
    /\ pc = "market"
    /\ options_df' = FetchHistoricalData(CurrentExpiries(ModelSecurities), {})
    /\ pc' = "fetched"
    /\ UNCHANGED <<market, target_options, reports, manifest, manifest_file,
                   position_data, active_positions>>
    /\ UNCHANGED calVars
    /\ UNCHANGED fetchVars
    /\ UNCHANGED runVars

\* target_delta_df = self.identify_target_delta_options(options_df)
Identify ==
    /\ pc = "fetched"
    /\ Len(options_df) > 0
    /\ target_options' = IdentifyTargetDeltaOptions(options_df)
    /\ reports' = IdentifyReports(options_df)
    /\ pc' = "identified"
    /\ UNCHANGED <<market, options_df, manifest, manifest_file,
                   position_data, active_positions>>
    /\ UNCHANGED calVars
    /\ UNCHANGED fetchVars
    /\ UNCHANGED runVars

\* position_manifest = self.create_position_tracking_manifest(target_delta_df);
\* the manifest is also written to position_tracking_manifest.csv.  The method
\* may be called again on the same selection.
CreateManifest ==
    /\ pc \in {"identified", "manifest", "rebuilt"}
    /\ Len(target_options) > 0
    /\ manifest' = CreatePositionTrackingManifest(target_options)
    /\ manifest_file' = manifest'
    /\ pc' = IF pc = "identified" THEN "manifest" ELSE "rebuilt"
    /\ UNCHANGED <<market, options_df, target_options, reports, position_data,
                   active_positions>>
    /\ UNCHANGED calVars
    /\ UNCHANGED fetchVars
    /\ UNCHANGED runVars

\* position_tracking_df = self.track_specific_positions(position_manifest): the
\* held tickers are fetched again, each request answered with the security's
\* series or failing (securityError, TIMEOUT or an exception: no row)
Track ==
    /\ pc \in {"manifest", "rebuilt"}
    /\ \E failed \in SUBSET {manifest[i].ticker : i \in 1..Len(manifest)} :
          LET tickers == PositionTickers(manifest)
              data == FetchHistoricalData([i \in 1..Len(tickers) |-> StrSecurity(tickers[i])],
                                          failed)
          IN  /\ position_data' = data
              /\ active_positions' = TrackSpecificPositions(data, manifest)
    /\ pc' = "tracked"
    /\ UNCHANGED <<market, options_df, target_options, reports, manifest, manifest_file>>
    /\ UNCHANGED calVars
    /\ UNCHANGED fetchVars
    /\ UNCHANGED runVars

Init == CalIdle /\ SelInit /\ FetchIdle /\ RunIdle

Next ==
    \/ GatewayPublish
    \/ FetchDiscovery
    \/ Identify
    \/ CreateManifest
    \/ Track

Spec == Init /\ [][Next]_vars

\* the days on which the scheduled daily collection runs
RunDays == {Date(2025, 8, 25), Date(2025, 8, 26)}

\* the days of history a daily run asks for
DailyWindow == 5

\* a run of collect_strategy_data is over
RunOver ==
    \/ pc = "fetched" /\ Len(options_df) = 0
    \/ pc = "identified" /\ Len(target_options) = 0
    \/ pc = "tracked"

\* run_daily_collection on a later day: the date range becomes the last 5 days and
\* collect_strategy_data starts again; the frames of the previous run are gone, the
\* manifest file stays on disk
RunDailyCollection ==
    /\ RunOver
    /\ \E now \in RunDays :
          /\ now > end_date
          /\ end_date' = now
          /\ start_date' = now - DailyWindow
    /\ options_df' = <<>>
    /\ target_options' = <<>>
    /\ reports' = <<>>
    /\ manifest' = <<>>
    /\ position_data' = <<>>
    /\ active_positions' = <<>>
    /\ pc' = "market"
    /\ UNCHANGED <<market, manifest_file>>
    /\ UNCHANGED <<variant, current_date, expiries, cal_pc>>
    /\ UNCHANGED fetchVars
    /\ UNCHANGED runVars

NextRuns ==
    \/ GatewayPublish
    \/ FetchDiscovery
    \/ Identify
    \/ CreateManifest
    \/ Track
    \/ RunDailyCollection

\* the first collection followed by daily collections
SpecRuns == Init /\ [][NextRuns]_vars

\* options_df = self.get_current_option_data_with_greeks(options_for_expiry[:20])
\* or self.get_option_data_with_greeks(current_options[:20])
FetchSnapshot ==
    /\ pc = "market"
    /\ \E v \in {"final", "complete"} :
          /\ options_df' = SnapshotFrom(FirstExpiryOptions, 1, v)
          /\ pc' = IF v = "final" THEN "final_fetched" ELSE "complete_fetched"
    /\ UNCHANGED <<market, target_options, reports, manifest, manifest_file,
                   position_data, active_positions>>
    /\ UNCHANGED calVars
    /\ UNCHANGED fetchVars
    /\ UNCHANGED runVars

\* target_positions_df = self.identify_target_delta_options(options_df), FinalVIXStrategy
IdentifyFinal ==
    /\ pc = "final_fetched"
    /\ Len(options_df) > 0
    /\ target_options' = FinalIdentify(options_df, "rows")
    /\ reports' = FinalIdentify(options_df, "reports")
    /\ pc' = "final"
    /\ UNCHANGED <<market, options_df, manifest, manifest_file,
                   position_data, active_positions>>
    /\ UNCHANGED calVars
    /\ UNCHANGED fetchVars
    /\ UNCHANGED runVars

\* target_positions_df = self.identify_target_delta_options(options_df), CompleteVIXStrategy
IdentifyComplete ==
    /\ pc = "complete_fetched"
    /\ Len(options_df) > 0
    /\ target_options' = CompleteIdentify(options_df, "rows")
    /\ reports' = CompleteIdentify(options_df, "reports")
    /\ pc' = "complete"
    /\ UNCHANGED <<market, options_df, manifest, manifest_file,
                   position_data, active_positions>>
    /\ UNCHANGED calVars
    /\ UNCHANGED fetchVars
    /\ UNCHANGED runVars

NextStrategies ==
    \/ GatewayPublish
    \/ FetchSnapshot
    \/ IdentifyFinal
    \/ IdentifyComplete

\* the snapshot fetch and the selector of FinalVIXStrategy and CompleteVIXStrategy
SpecStrategies == Init /\ [][NextStrategies]_vars

\* an option chain of one expiry quoted on one day: the strikes of the chain, and
\* the deltas a contract of the chain may have (unknown included)
ChainStrikes == <<30, 25, 20, 18, 12>>
ChainDeltas == {800, 1100, 4800, 5300, 9200, NaN}
ChainVolumes == {0, 1}

\* the frame a fetch returns for a chain with the given deltas and volume
ChainFrame(deltas, volume, v) ==
    [i \in 1..Len(ChainStrikes) |->
        LET security == OptionSecurity(ModelExpiries[2], ChainStrikes[i])
            fd == [ticker |-> security.ticker, date |-> end_date, delta |-> deltas[i],
                   volume |-> volume, mid |-> 200, last |-> 200]
        IN  IF v = "final" THEN FinalRowData(security, fd) ELSE RowData(security, fd)]

\* a selector of VIXStrategyDataFetcher or FinalVIXStrategy is about to be called on
\* the frame of a chain
InitChain ==
    /\ CalIdle
    /\ market = {}
    /\ \E v \in {"fetcher", "final"} :
          /\ pc = IF v = "final" THEN "final_fetched" ELSE "fetched"
          /\ \E deltas \in [1..Len(ChainStrikes) -> ChainDeltas], volume \in ChainVolumes :
                options_df = ChainFrame(deltas, volume, v)
    /\ target_options = <<>>
    /\ reports = <<>>
    /\ manifest = <<>>
    /\ manifest_file = <<>>
    /\ position_data = <<>>
    /\ active_positions = <<>>
    /\ FetchIdle
    /\ RunIdle

NextChain ==
    \/ Identify
    \/ IdentifyFinal

\* the selectors applied to option chains
SpecChain == InitChain /\ [][NextChain]_vars

NextFetch ==
    \/ FetchBegin
    \/ FetchSend
    \/ FetchSendRaises
    \/ GatewayPartialResponse
    \/ GatewayResponse
    \/ FetchOnResponse
    \/ FetchOnOtherEvent
    \/ FetchOnTimeout
    \/ FetchReturn

\* one call of fetch_historical_data against the gateway
SpecFetch == Init /\ [][NextFetch]_vars

\* all orderings of the rows of a frame
Reorderings(df) ==
    {[i \in 1..Len(df) |-> df[p[i]]] : p \in Permutations(1..Len(df))}

\* identify_target_delta_options called on the discovery rows in any row order
IdentifyAnyOrder ==
    /\ pc = "fetched"
    /\ Len(options_df) > 0
    /\ \E df \in Reorderings(options_df) :
          /\ target_options' = IdentifyTargetDeltaOptions(df)
          /\ reports' = IdentifyReports(df)
    /\ pc' = "identified"
    /\ UNCHANGED <<market, options_df, manifest, manifest_file,
                   position_data, active_positions>>
    /\ UNCHANGED calVars
    /\ UNCHANGED fetchVars
    /\ UNCHANGED runVars

NextSelect ==
    \/ GatewayPublish
    \/ FetchDiscovery
    \/ IdentifyAnyOrder

\* the selector as a function of its frame, whatever the order of the rows
SpecSelect == Init /\ [][NextSelect]_vars

\* the calendar generator alone
CalNext ==
    \/ CalBegin
    \/ CalIterate
    \/ CalReturn
    \/ CalRaise

InitCalendar == CalInit /\ SelInit /\ FetchIdle /\ RunIdle

SpecCalendar == InitCalendar /\ [][CalNext]_vars


-----------------------------------------------------------------------------
(* The gateway session of VIXStrategyDataFetcher.collect_strategy_data *)

\* connect_bloomberg: blpapi.Session(sessionOptions) and self.session.start() succeed
ConnectStart ==
    /\ collect_pc = "idle"
    /\ session' = "started"
    /\ collect_pc' = "opening"
    /\ UNCHANGED <<calVars, selVars, fetchVars, schedVars, tenVars>>

\* self.session.start() returns False: connect_bloomberg returns False and
\* collect_strategy_data returns None
ConnectStartFails ==
    /\ collect_pc = "idle"
    /\ session' = "created"
    /\ collect_pc' = "returned"
    /\ UNCHANGED <<calVars, selVars, fetchVars, schedVars, tenVars>>

\* a call inside connect_bloomberg raises: except Exception logs the error,
\* connect_bloomberg returns False and collect_strategy_data returns None
ConnectRaises ==
    /\ collect_pc \in {"idle", "opening"}
    /\ session' = IF collect_pc = "idle" THEN "created" ELSE session
    /\ collect_pc' = "returned"
    /\ UNCHANGED <<calVars, selVars, fetchVars, schedVars, tenVars>>

\* self.session.openService("//blp/refdata") succeeds; getService; return True
ConnectOpenService ==
    /\ collect_pc = "opening"
    /\ collect_pc' = "spot"
    /\ UNCHANGED <<session, calVars, selVars, fetchVars, schedVars, tenVars>>

\* openService returns False: connect_bloomberg returns False and
\* collect_strategy_data returns None ahead of its try statement
ConnectOpenFails ==
    /\ collect_pc = "opening"
    /\ collect_pc' = "returned"
    /\ UNCHANGED <<session, calVars, selVars, fetchVars, schedVars, tenVars>>

\* 1. VIX spot data: fetch_historical_data(['VIX Index'], ...) returns a frame (it
\* handles its own exceptions)
CollectSpot ==
    /\ collect_pc = "spot"
    /\ collect_pc' = "futures"
    /\ UNCHANGED <<session, calVars, selVars, fetchVars, schedVars, tenVars>>

\* 2. generate_vix_futures_tickers calls get_vix_expiry_calendar
CollectCalBegin == collect_pc = "futures" /\ CalBegin

CollectCalIterate == collect_pc = "futures" /\ CalIterate

CollectCalRaise == collect_pc = "futures" /\ CalRaise

\* except Exception as e: the error is logged, None is to be returned
CollectExcept ==
    /\ collect_pc = "futures"
    /\ cal_pc = "raised"
    /\ collect_pc' = "finally"
    /\ UNCHANGED <<session, calVars, selVars, fetchVars, schedVars, tenVars>>

\* finally: if self.session: self.session.stop()
CollectFinally ==
    /\ collect_pc = "finally"
    /\ session' = IF session # "none" THEN "stopped" ELSE session
    /\ collect_pc' = "returned"
    /\ UNCHANGED <<calVars, selVars, fetchVars, schedVars, tenVars>>

\* a fetcher constructed on any day of the calendar bounds
InitSession == CalInit /\ variant = "fetcher" /\ SelInit /\ FetchIdle /\ RunIdle

\* the stages of collect_strategy_data behind generate_vix_futures_tickers are not
\* reached: the calendar of this class raises at its second loop test
NextSession ==
    \/ ConnectStart
    \/ ConnectStartFails
    \/ ConnectRaises
    \/ ConnectOpenService
    \/ ConnectOpenFails
    \/ CollectSpot
    \/ CollectCalBegin
    \/ CollectCalIterate
    \/ CollectCalRaise
    \/ CollectExcept
    \/ CollectFinally

SpecSession == InitSession /\ [][NextSession]_vars

-----------------------------------------------------------------------------
(* VIXScheduler.daily_collection_job *)

\* the largest retry_attempts of a schedule_config.json
MaxAttempts == 4

\* schedule_config.json as load_schedule_config reads it: the values are taken as
\* they are
ScheduleConfigs ==
    [retry_attempts : 0..MaxAttempts, retry_delay_minutes : {0, 15},
     data_validation : BOOLEAN]

\* max_attempts = self.schedule_config.get('retry_attempts', 3)
max_attempts == schedule_config.retry_attempts

\* for attempt in range(1, max_attempts + 1): the first value, or the end of an
\* empty range
JobBegin ==
    /\ job_pc = "idle"
    /\ IF 1 <= max_attempts
       THEN attempt' = 1 /\ job_pc' = "loop"
       ELSE attempt' = attempt /\ job_pc' = "done"
    /\ UNCHANGED <<schedule_config, attempt_log, sleeps, validated>>
    /\ UNCHANGED <<calVars, selVars, fetchVars, sessVars, tenVars>>

\* run_vix_collection returns True (the script exited with 0): validate_recent_data
\* is called if configured; break
AttemptSucceeds ==
    /\ job_pc = "loop"
    /\ attempt_log' = Append(attempt_log, TRUE)
    /\ validated' = schedule_config.data_validation
    /\ job_pc' = "done"
    /\ UNCHANGED <<schedule_config, attempt, sleeps>>
    /\ UNCHANGED <<calVars, selVars, fetchVars, sessVars, tenVars>>

\* run_vix_collection returns False (script missing, non-zero exit or timeout): the
\* job sleeps the retry delay if attempts are left, else logs that all failed
AttemptFails ==
    /\ job_pc = "loop"
    /\ attempt_log' = Append(attempt_log, FALSE)
    /\ IF attempt < max_attempts
       THEN /\ sleeps' = sleeps \cup {[after |-> attempt,
                                       minutes |-> schedule_config.retry_delay_minutes]}
            /\ job_pc' = "sleep"
       ELSE /\ sleeps' = sleeps
            /\ job_pc' = "done"
    /\ UNCHANGED <<schedule_config, attempt, validated>>
    /\ UNCHANGED <<calVars, selVars, fetchVars, sessVars, tenVars>>

\* time.sleep(retry_delay * 60) returns: the loop takes its next value
RetryDelayElapsed ==
    /\ job_pc = "sleep"
    /\ attempt' = attempt + 1
    /\ job_pc' = "loop"
    /\ UNCHANGED <<schedule_config, attempt_log, sleeps, validated>>
    /\ UNCHANGED <<calVars, selVars, fetchVars, sessVars, tenVars>>

\* a scheduler constructed with any schedule_config.json
InitScheduler ==
    /\ CalIdle /\ SelInit /\ FetchIdle /\ SessionIdle /\ TenIdle
    /\ schedule_config \in ScheduleConfigs
    /\ attempt = 0
    /\ attempt_log = <<>>
    /\ sleeps = {}
    /\ validated = FALSE
    /\ job_pc = "idle"

NextScheduler ==
    \/ JobBegin
    \/ AttemptSucceeds
    \/ AttemptFails
    \/ RetryDelayElapsed

SpecScheduler == InitScheduler /\ [][NextScheduler]_vars

\* the subprocess ends or times out after an hour and every sleep ends
SpecSchedulerFair == SpecScheduler /\ WF_vars(NextScheduler)

-----------------------------------------------------------------------------
(* TenYearVolatilityFetcher.collect_ten_year_data and its progress file *)

\* the number of target securities
MaxSecurities == 6

\* the list load_target_securities returned
Securities == [i \in 1..MaxSecurities |-> <<"SEC", i>>]

\* progress is saved after every fifth security of the list
SaveEvery == 5

\* a progress file left by earlier runs: completed and failed securities, disjoint
ProgressRecords ==
    LET known == {Securities[1], Securities[2], Securities[3]}
    IN  {r \in [completed_securities : SUBSET known, failed_securities : SUBSET known] :
            r.completed_securities \cap r.failed_securities = {}}

\* the failed set after a success with the ticker left in it
FailedKept(failed, ticker) == failed

\* if ticker in failed_securities: failed_securities.remove(ticker)
FailedAfterSuccess(failed, ticker) == failed \ {ticker}

\* save_progress(progress) when (i + 1) % 5 == 0, with i + 1 the position in the list
SavedAt(idx, file, dict) == IF idx % SaveEvery = 0 THEN dict ELSE file

\* main calls collect_ten_year_data: load_progress reads the file, the two sets are
\* built from it and the loop starts at the first security
TenLoad ==
    /\ ten_pc \in {"idle", "interrupted", "returned"}
    /\ progress' = progress_file
    /\ completed_securities' = progress_file.completed_securities
    /\ failed_securities' = progress_file.failed_securities
    /\ ten_idx' = 1
    /\ fetched' = <<>>
    /\ ten_pc' = "loop"
    /\ UNCHANGED progress_file
    /\ UNCHANGED <<calVars, selVars, fetchVars, sessVars, schedVars>>

\* if ticker in completed_securities: continue
TenSkip ==
    /\ ten_pc = "loop"
    /\ ten_idx <= Len(Securities)
    /\ Securities[ten_idx] \in completed_securities
    /\ ten_idx' = ten_idx + 1
    /\ UNCHANGED <<progress, completed_securities, failed_securities, progress_file,
                   fetched, ten_pc>>
    /\ UNCHANGED <<calVars, selVars, fetchVars, sessVars, schedVars>>

\* the two fetch_security_volatility_data calls for the ticker begin
TenFetch ==
    /\ ten_pc = "loop"
    /\ ten_idx <= Len(Securities)
    /\ Securities[ten_idx] \notin completed_securities
    /\ fetched' = Append(fetched, Securities[ten_idx])
    /\ ten_pc' = "fetch"
    /\ UNCHANGED <<progress, completed_securities, failed_securities, progress_file,
                   ten_idx>>
    /\ UNCHANGED <<calVars, selVars, fetchVars, sessVars, schedVars>>

\* realized_success or implied_success: the ticker is added to the completed set and
\* removed from the failed set, progress is saved at every fifth position
TenFetchSucceeds ==
    /\ ten_pc = "fetch"
    /\ LET ticker == Securities[ten_idx]
           completed == completed_securities \cup {ticker}
           failed == FailedAfterSuccess(failed_securities, ticker)
           dict == [completed_securities |-> completed,
                    failed_securities |-> IF ticker \in failed_securities THEN failed
                                          ELSE progress.failed_securities]
       IN  /\ completed_securities' = completed
           /\ failed_securities' = failed
           /\ progress' = dict
           /\ progress_file' = SavedAt(ten_idx, progress_file, dict)
    /\ ten_idx' = ten_idx + 1
    /\ ten_pc' = "loop"
    /\ UNCHANGED fetched
    /\ UNCHANGED <<calVars, selVars, fetchVars, sessVars, schedVars>>

\* neither frame has more than 100 observations: the ticker is added to the failed
\* set, progress is saved at every fifth position
TenFetchInsufficient ==
    /\ ten_pc = "fetch"
    /\ LET failed == failed_securities \cup {Securities[ten_idx]}
           dict == [progress EXCEPT !.failed_securities = failed]
       IN  /\ failed_securities' = failed
           /\ progress' = dict
           /\ progress_file' = SavedAt(ten_idx, progress_file, dict)
    /\ ten_idx' = ten_idx + 1
    /\ ten_pc' = "loop"
    /\ UNCHANGED <<completed_securities, fetched>>
    /\ UNCHANGED <<calVars, selVars, fetchVars, sessVars, schedVars>>

\* except Exception: the ticker is added to the failed set; continue
TenFetchRaises ==
    /\ ten_pc = "fetch"
    /\ failed_securities' = failed_securities \cup {Securities[ten_idx]}
    /\ progress' = [progress EXCEPT !.failed_securities = failed_securities']
    /\ ten_idx' = ten_idx + 1
    /\ ten_pc' = "loop"
    /\ UNCHANGED <<completed_securities, progress_file, fetched>>
    /\ UNCHANGED <<calVars, selVars, fetchVars, sessVars, schedVars>>

\* the user interrupts: KeyboardInterrupt leaves collect_ten_year_data (it is not an
\* Exception) and main prints that progress has been saved and disconnects
TenInterrupt ==
    /\ ten_pc \in {"loop", "fetch"}
    /\ ten_pc' = "interrupted"
    /\ UNCHANGED <<progress, completed_securities, failed_securities, progress_file,
                   ten_idx, fetched>>
    /\ UNCHANGED <<calVars, selVars, fetchVars, sessVars, schedVars>>

\* the loop is over: final progress save, the data is combined and returned
TenReturn ==
    /\ ten_pc = "loop"
    /\ ten_idx > Len(Securities)
    /\ progress_file' = progress
    /\ ten_pc' = "returned"
    /\ UNCHANGED <<progress, completed_securities, failed_securities, ten_idx, fetched>>
    /\ UNCHANGED <<calVars, selVars, fetchVars, sessVars, schedVars>>

\* a fetcher constructed next to any progress file
InitTenYear ==
    /\ CalIdle /\ SelInit /\ FetchIdle /\ SessionIdle /\ JobIdle
    /\ progress_file \in ProgressRecords
    /\ progress = [completed_securities |-> {}, failed_securities |-> {}]
    /\ completed_securities = {}
    /\ failed_securities = {}
    /\ ten_idx = 0
    /\ fetched = <<>>
    /\ ten_pc = "idle"

NextTenYear ==
    \/ TenLoad
    \/ TenSkip
    \/ TenFetch
    \/ TenFetchSucceeds
    \/ TenFetchInsufficient
    \/ TenFetchRaises
    \/ TenInterrupt
    \/ TenReturn

SpecTenYear == InitTenYear /\ [][NextTenYear]_vars

-----------------------------------------------------------------------------
(* Properties *)

Selected == pc \in {"identified", "manifest", "rebuilt", "tracked"}
Built == pc \in {"manifest", "rebuilt", "tracked"}

SelectedRows == {target_options[i] : i \in 1..Len(target_options)}
ManifestEntries == {manifest[i] : i \in 1..Len(manifest)}
Records == {active_positions[i] : i \in 1..Len(active_positions)}
DiscoveryRows == {options_df[i] : i \in 1..Len(options_df)}

\* the rows of an expiry that have delta and volume on the expiry's first such day
EntryCandidates(key) ==
    LET valid == {r \in DiscoveryRows : r.expiry_date = key /\ HasValidData(r)}
    IN  {r \in valid : \A o \in valid : r.date = o.date \/ StrLess(r.date, o.date)}

\* C1: every expiry that contributes rows to the selection (and entries to the
\* manifest) contributes exactly one per target delta, 10 and 50: an expiry with a
\* single resolved leg contributes nothing.
C1_CompleteCyclesOnly ==
    /\ Selected =>
          \A r \in SelectedRows : \A t \in {10, 50} :
              Cardinality({j \in 1..Len(target_options) :
                              /\ target_options[j].expiry_date = r.expiry_date
                              /\ target_options[j].target_delta = t}) = 1
    /\ Built =>
          \A e \in ManifestEntries : \A t \in {10, 50} :
              Cardinality({j \in 1..Len(manifest) :
                              /\ manifest[j].expiry_date = e.expiry_date
                              /\ manifest[j].target_delta = t}) = 1

\* C2: a leg of an expiry is selected exactly when the least |delta - target| over
\* the expiry's entry-day candidates is at most 0.05 (a difference of exactly 0.05
\* is accepted), so every selected row is within 0.05 of its target.
C2_AcceptedIffWithinInclusive ==
    Selected =>
        /\ \A key \in {r.expiry_date : r \in DiscoveryRows} : \A t \in {10, 50} :
              LET cands == EntryCandidates(key)
              IN  cands # {} =>
                    ((\E r \in SelectedRows :
                          r.expiry_date = ToDatetime(key) /\ r.target_delta = t)
                     <=> (\E c \in cands : DeltaDiff(c, t) <= 500))
        /\ \A r \in SelectedRows : DeltaDiff(r, r.target_delta) <= 500

\* C3: of two entry-day candidates equally distant from a target, the one with the
\* lower strike is selected, whatever the order of the rows of the frame.
C3_LowestStrikeOnTie ==
    Selected =>
        \A r \in SelectedRows :
            ~\E c \in EntryCandidates(Strftime(r.expiry_date)) :
                /\ DeltaDiff(c, r.target_delta) = DeltaDiff(r, r.target_delta)
                /\ c.strike < r.strike

\* C4: every record of track_specific_positions lies in the holding window of the
\* manifest entry of its symbol: entry_date <= date <= roll_date.
C4_RecordsInsideWindow ==
    pc = "tracked" =>
        \A rec \in Records :
            \E e \in ManifestEntries :
                /\ e.ticker = rec.ticker
                /\ ToDatetime(e.entry_date) <= ToDatetime(rec.date)
                /\ ToDatetime(rec.date) <= e.roll_date

\* a tracked run that produced a record of a held symbol although the gateway also
\* returned a quote of that symbol from after its roll date
C4_Witness ==
    /\ pc = "tracked"
    /\ \E i \in 1..Len(position_data) : \E e \in ManifestEntries :
          /\ e.ticker = position_data[i].ticker
          /\ ToDatetime(position_data[i].date) > e.roll_date
          /\ \E rec \in Records : rec.ticker = e.ticker

\* the same with a quote of the held symbol from before its entry date
C4_WitnessBeforeEntry ==
    /\ pc = "tracked"
    /\ \E i \in 1..Len(position_data) : \E e \in ManifestEntries :
          /\ e.ticker = position_data[i].ticker
          /\ ToDatetime(position_data[i].date) < ToDatetime(e.entry_date)
          /\ \E rec \in Records : rec.ticker = e.ticker

\* C5: a held symbol's day without a quote (no row from the gateway, or a row whose
\* mid price is unknown) has no record, and no record carries an unknown daily_pnl.
C5_NoRecordWithoutQuote ==
    pc = "tracked" =>
        \A rec \in Records :
            /\ ~IsNa(rec.mid)
            /\ ~IsNa(rec.daily_pnl)
            /\ \E i \in 1..Len(position_data) :
                  /\ position_data[i].ticker = rec.ticker
                  /\ position_data[i].date = rec.date

\* C6: every generated expiry is a Wednesday with day of month in 15..21 of the
\* month it was generated for: the third Wednesday of that month.
C6_ThirdWednesday ==
    \A i \in 1..Len(expiries) :
        /\ Weekday(expiries[i].expiry_date) = 2
        /\ DayOf(expiries[i].expiry_date) \in 15..21
        /\ YearOf(expiries[i].expiry_date) = expiries[i].year
        /\ MonthOf(expiries[i].expiry_date) = expiries[i].month

\* a returned calendar whose months start on every weekday and include a leap
\* February and months of 30 and 31 days
C6_Witness ==
    /\ cal_pc = "returned"
    /\ {Weekday(Date(expiries[i].year, expiries[i].month, 1)) : i \in 1..Len(expiries)} = 0..6
    /\ \E i \in 1..Len(expiries) : expiries[i].month = 2 /\ IsLeap(expiries[i].year)
    /\ \E i \in 1..Len(expiries) : DayOf(expiries[i].expiry_date) = 15
    /\ \E i \in 1..Len(expiries) : DayOf(expiries[i].expiry_date) = 21

C8_RollIsDayBeforeExpiry ==
    Built =>
        \A e \in ManifestEntries :
            /\ e.roll_date + 1 = e.expiry_date
            /\ \E i \in 1..Len(ModelSecurities) :
                  /\ ModelSecurities[i].ticker = e.ticker
                  /\ ModelSecurities[i].expiry_date = e.expiry_date
            /\ (Strftime(e.expiry_date) = <<2025, 8, 20>>
                  => Strftime(e.roll_date) = <<2025, 8, 19>>)

\* a manifest holding a contract of the 2025-08-20 expiry
C8_Witness ==
    /\ Built
    /\ \E e \in ManifestEntries : Strftime(e.expiry_date) = <<2025, 8, 20>>

\* the price of a quote: its mid, or its last when the mid is unknown
MidOrLast(r) == IF IsNa(r.mid) THEN r.last ELSE r.mid

\* C9: every selected contract was eligible on its entry date: delta known and > 0,
\* volume (unknown counted as 0) > 0, mid-or-last price known and > 0.
C9_SelectedWereEligible ==
    Selected =>
        \A r \in SelectedRows :
            /\ ~IsNa(r.delta) /\ r.delta > 0
            /\ FillNa0(r.volume) > 0
            /\ ~IsNa(MidOrLast(r)) /\ MidOrLast(r) > 0

\* C10: every manifest entry has a known entry_price > 0 and a known entry_delta,
\* also when the selected contract has an unknown mid but a known last price.
C10_ValidEntryPrice ==
    Built =>
        \A e \in ManifestEntries :
            /\ ~IsNa(e.entry_price) /\ e.entry_price > 0
            /\ ~IsNa(e.entry_delta)

\* the quotes the gateway returned for a record's symbol and day
QuotesOf(rec) ==
    {position_data[i] : i \in {j \in 1..Len(position_data) :
                                  /\ position_data[j].ticker = rec.ticker
                                  /\ position_data[j].date = rec.date}}

\* C11: every record has price_change = mid of its day - entry_price of the manifest
\* entry of its symbol, daily_pnl = price_change * quantity * 100 and delta_change =
\* delta of its day - entry_delta (unknown when an operand is unknown); entry price
\* 18.50, quantity -1 and mid 16.00 give a daily_pnl of +250.
C11_PnlArithmetic ==
    pc = "tracked" =>
        \A rec \in Records :
            \E e \in ManifestEntries : \E q \in QuotesOf(rec) :
                /\ e.ticker = rec.ticker
                /\ rec.price_change =
                      (IF IsNa(q.mid) \/ IsNa(e.entry_price) THEN NaN
                       ELSE q.mid - e.entry_price)
                /\ rec.daily_pnl =
                      (IF IsNa(rec.price_change) THEN NaN
                       ELSE rec.price_change * e.quantity * 100)
                /\ rec.delta_change =
                      (IF IsNa(q.delta) \/ IsNa(e.entry_delta) THEN NaN
                       ELSE q.delta - e.entry_delta)
                /\ (e.entry_price = 1850 /\ e.quantity = -1 /\ q.mid = 1600)
                      => (rec.price_change = -250 /\ rec.daily_pnl = 25000)

\* a record of a short leg entered at 18.50 and quoted at 16.00 on a later day
C11_Witness ==
    /\ pc = "tracked"
    /\ \E rec \in Records :
          /\ rec.entry_price = 1850 /\ rec.quantity = -1 /\ rec.mid = 1600
          /\ ToDatetime(rec.date) > ToDatetime(rec.entry_date)
          /\ rec.daily_pnl = 25000

\* the signed quantity configured for a leg
ConfiguredQuantity(target_delta) == IF target_delta = 50 THEN -1 ELSE 2

\* C12: the manifest has exactly one entry per selected position, with that
\* position's symbol and the configured signed quantity of its leg (-1 for the
\* 50-delta leg, +2 for the 10-delta leg), and the quantity multiplied into the
\* daily_pnl of a record is that of the record's leg.
C12_QuantityCarriedThrough ==
    /\ Selected =>
          \A r \in SelectedRows : r.quantity = ConfiguredQuantity(r.target_delta)
    /\ Built =>
          /\ Len(manifest) = Len(target_options)
          /\ \A i \in 1..Len(manifest) :
                /\ manifest[i].ticker = target_options[i].ticker
                /\ manifest[i].target_delta = target_options[i].target_delta
                /\ manifest[i].quantity = ConfiguredQuantity(target_options[i].target_delta)
    /\ pc = "tracked" =>
          \A rec \in Records :
              /\ rec.quantity = ConfiguredQuantity(rec.target_delta)
              /\ ~IsNa(rec.price_change) =>
                    rec.daily_pnl = rec.price_change * ConfiguredQuantity(rec.target_delta) * 100

\* a record of a long 10-delta leg (LONG, +2) whose price moved since entry
C12_Witness ==
    /\ pc = "tracked"
    /\ \E rec \in Records :
          /\ rec.target_delta = 10 /\ rec.position_type = "LONG"
          /\ ~IsNa(rec.price_change) /\ rec.price_change # 0
          /\ rec.daily_pnl = rec.price_change * 2 * 100

InputExpiries == {options_df[i].expiry_date : i \in 1..Len(options_df)}

\* C15: every expiry present in the input of the selector gets exactly one report,
\* a complete cycle or a warning naming the expiry and the legs found; an expiry
\* with no eligible snapshot at all is reported too.
C15_EveryExpiryReported ==
    Selected =>
        \A key \in InputExpiries :
            Cardinality({i \in 1..Len(reports) : reports[i].expiry = ToDatetime(key)}) = 1

\* the rows the selector returned for one expiry, in order
SelectedOf(key) == SelectSeq(target_options, LAMBDA r : r.expiry_date = ToDatetime(key))

\* C16: the positions returned for an expiry are those the selector returns when it
\* is given the snapshots of that expiry alone, whatever the other expiries of the
\* input hold and whether or not the expiries before it resolved.
C16_IndependentPerExpiry ==
    Selected =>
        \A key \in InputExpiries :
            SelectedOf(key) = IdentifyTargetDeltaOptions(Group(options_df, key))

\* an input of two expiries of which the first yields no position and the second
\* yields one
C16_Witness ==
    /\ Selected
    /\ Cardinality(InputExpiries) = 2
    /\ \E a \in InputExpiries, b \in InputExpiries :
          /\ StrLess(a, b)
          /\ SelectedOf(a) = <<>>
          /\ SelectedOf(b) # <<>>

\* an eligible snapshot: delta known and > 0, volume (unknown as 0) > 0, mid-or-last
\* price known and > 0
EligibleSnapshot(r) ==
    /\ ~IsNa(r.delta) /\ r.delta > 0
    /\ FillNa0(r.volume) > 0
    /\ ~IsNa(MidOrLast(r)) /\ MidOrLast(r) > 0

\* C20: the legs selected for an expiry share one entry_date, each was quoted on
\* it, and it is the earliest date on which the expiry has an eligible snapshot.
C20_EntryOnFirstEligibleDate ==
    Selected =>
        \A r \in SelectedRows :
            /\ r.date = r.entry_date
            /\ \A o \in SelectedRows : o.expiry_date = r.expiry_date => o.entry_date = r.entry_date
            /\ \E c \in DiscoveryRows :
                  /\ c.expiry_date = Strftime(r.expiry_date)
                  /\ c.date = r.entry_date
                  /\ EligibleSnapshot(c)
            /\ \A c \in DiscoveryRows :
                  (c.expiry_date = Strftime(r.expiry_date) /\ EligibleSnapshot(c))
                      => ~StrLess(c.date, r.entry_date)

\* the same with the validity test of the selector (delta and volume only) in the
\* place of eligibility
C20_EntryOnFirstValidDate ==
    Selected =>
        \A r \in SelectedRows :
            /\ r.date = r.entry_date
            /\ \A o \in SelectedRows : o.expiry_date = r.expiry_date => o.entry_date = r.entry_date
            /\ \A c \in DiscoveryRows :
                  (c.expiry_date = Strftime(r.expiry_date) /\ HasValidData(c))
                      => ~StrLess(c.date, r.entry_date)

\* the candidates of an expiry in the class whose selector ran
StrategyCandidates(key) ==
    {r \in DiscoveryRows :
        /\ r.expiry_date = key
        /\ IF pc = "final" THEN FinalValid(r) ELSE CompleteValid(r)}

\* a candidate of the expiry lies strictly within 0.05 of the target
LegResolves(key, t) == \E c \in StrategyCandidates(key) : DeltaDiff(c, t) < 500

\* a candidate of the expiry lies within 0.05 of the target, 0.05 included
LegResolvesInclusive(key, t) == \E c \in StrategyCandidates(key) : DeltaDiff(c, t) <= 500

\* C17: FinalVIXStrategy and CompleteVIXStrategy return, for an expiry of which both
\* the 10-delta and the 50-delta leg resolve, exactly two positions, one per target,
\* each a candidate within tolerance of its target; for an expiry with a leg that
\* does not resolve they return none.  (A closest contract exactly 0.05 away is
\* left to C2.)
C17_BothLegsOrNone ==
    pc \in {"final", "complete"} =>
        \A key \in InputExpiries :
            LET idx == {j \in 1..Len(target_options) : target_options[j].expiry_date = key}
            IN  /\ idx # {} =>
                      /\ Cardinality(idx) = 2
                      /\ \A t \in {10, 50} :
                            Cardinality({j \in idx : target_options[j].target_delta = t}) = 1
                      /\ \A j \in idx :
                            \E c \in StrategyCandidates(key) :
                                /\ c.ticker = target_options[j].ticker
                                /\ DeltaDiff(c, target_options[j].target_delta) <= 500
                /\ (LegResolves(key, 10) /\ LegResolves(key, 50)) => idx # {}
                /\ (~LegResolvesInclusive(key, 10) \/ ~LegResolvesInclusive(key, 50)) => idx = {}

\* FinalVIXStrategy has returned the two positions of a complete cycle
C17_Witness ==
    /\ pc = "final"
    /\ Len(target_options) = 2
    /\ {target_options[j].target_delta : j \in 1..Len(target_options)} = {10, 50}

\* CompleteVIXStrategy has returned nothing for an expiry of which one leg resolves
C17_WitnessOneLeg ==
    /\ pc = "complete"
    /\ Len(target_options) = 0
    /\ \E key \in InputExpiries : LegResolves(key, 10) /\ ~LegResolvesInclusive(key, 50)

\* the deltas of the input frame, row by row
InputDeltas == [i \in 1..Len(options_df) |-> options_df[i].delta]

\* the strikes selected for a target
SelectedStrikes(t) ==
    {target_options[j].strike : j \in {k \in 1..Len(target_options) :
                                          target_options[k].target_delta = t}}

\* the delta of a returned position (column delta, or actual_delta in FinalVIXStrategy)
PositionDelta(r) == IF pc = "final" THEN r.actual_delta ELSE r.delta

\* C19: no eligible contract of the expiry quoted on the entry date of a selected
\* contract is strictly closer to the target delta than the selected one; the chain
\* with deltas [0.08, 0.11, 0.48, 0.53, 0.92] at strikes [30, 25, 20, 18, 12] gives
\* strike 25 for the 10-delta leg and strike 20 for the 50-delta leg.
C19_ClosestDeltaSelected ==
    pc \in {"identified", "final"} =>
        /\ \A r \in SelectedRows :
              \A c \in DiscoveryRows :
                  (/\ EligibleSnapshot(c)
                   /\ c.date = r.entry_date
                   /\ c.expiry_date = (IF pc = "final" THEN r.expiry_date
                                       ELSE Strftime(r.expiry_date)))
                  => Abs(c.delta - r.target_delta * 100)
                         >= Abs(PositionDelta(r) - r.target_delta * 100)
        /\ (InputDeltas = <<800, 1100, 4800, 5300, 9200>> /\ options_df[1].volume = 1)
              => (SelectedStrikes(10) = {25} /\ SelectedStrikes(50) = {20})

\* the selector of VIXStrategyDataFetcher has run on the chain of the example
C19_Witness ==
    /\ pc = "identified"
    /\ InputDeltas = <<800, 1100, 4800, 5300, 9200>>
    /\ options_df[1].volume = 1
    /\ SelectedStrikes(10) = {25}
    /\ SelectedStrikes(50) = {20}

\* the same in FinalVIXStrategy
C19_WitnessFinal ==
    /\ pc = "final"
    /\ InputDeltas = <<800, 1100, 4800, 5300, 9200>>
    /\ options_df[1].volume = 1
    /\ SelectedStrikes(10) = {25}
    /\ SelectedStrikes(50) = {20}

\* the securities whose turn ended with a gateway failure: a TIMEOUT or an exception
GatewayFailures == {t \in FetchTickers : outcome[t].type \in {"TIMEOUT", "EXCEPTION"}}

\* how often a security was requested during the call
RequestCount(t) == Cardinality({k \in 1..Len(requests) : requests[k] = t})

\* C14: a call of fetch_historical_data in which the request of a security ended
\* with a TIMEOUT or an exception does not return a frame as a call without failure
\* does (the failure reaches the caller), and no security is requested twice.
C14_FailurePropagated ==
    /\ fetch_pc = "returned" => GatewayFailures = {}
    /\ \A t \in FetchTickers : RequestCount(t) <= 1

\* the part of C14 about retries alone
C14_NoRetry == \A t \in FetchTickers : RequestCount(t) <= 1

\* every turn taken so far ended with the gateway's own answer to its request
AnsweredInTurn ==
    \A t \in FetchTickers :
        \/ outcome[t].type = "NONE"
        \/ outcome[t].type = "RESPONSE" /\ outcome[t].ticker = t

RECURSIVE RowsWithoutFailing(_)
\* the rows of the securities from position i on, the securities answered with a
\* securityError left out of the batch
RowsWithoutFailing(i) ==
    IF i > Len(FetchBatch) THEN <<>>
    ELSE LET answer == outcome[FetchBatch[i].ticker]
         IN  (IF answer.securityError THEN <<>>
              ELSE [j \in 1..Len(answer.fieldData) |->
                       RowData(FetchBatch[i], answer.fieldData[j])])
             \o RowsWithoutFailing(i + 1)

\* C18: when the gateway answers a security with a securityError, the call records
\* no row under its ticker, still requests every security of the batch once and in
\* order, and returns the rows it would return without the failing security.
C18_SecurityErrorSkipsOne ==
    (fetch_pc = "returned" /\ AnsweredInTurn) =>
        /\ requests = [i \in 1..Len(FetchBatch) |-> FetchBatch[i].ticker]
        /\ \A t \in FetchTickers :
              (outcome[t].type = "RESPONSE" /\ outcome[t].securityError) =>
                  ~\E k \in 1..Len(all_data) : all_data[k].ticker = t
        /\ all_data = RowsWithoutFailing(1)

\* a call that returned after a securityError for its second security, with a row
\* of the first and a row of the third security
C18_Witness ==
    /\ fetch_pc = "returned"
    /\ AnsweredInTurn
    /\ outcome[FetchBatch[2].ticker].type = "RESPONSE"
    /\ outcome[FetchBatch[2].ticker].securityError
    /\ \E k \in 1..Len(all_data) : all_data[k].ticker = FetchBatch[1].ticker
    /\ \E k \in 1..Len(all_data) : all_data[k].ticker = FetchBatch[3].ticker

\* months counted from year 0
MonthIndex(year, month) == year * 12 + (month - 1)

LadderPairs ==
    {<<expiries[e].expiry_date, StrikeLadder[k]>> :
        e \in 1..Len(expiries), k \in 1..Len(StrikeLadder)}

C23_OneRecordPerSymbolAndDate ==
    /\ Selected =>
          \A i, j \in 1..Len(target_options) :
              target_options[i].ticker = target_options[j].ticker => i = j
    /\ Built =>
          \A i, j \in 1..Len(manifest) : manifest[i].ticker = manifest[j].ticker => i = j
    /\ pc = "tracked" =>
          \A i, j \in 1..Len(active_positions) :
              (/\ active_positions[i].ticker = active_positions[j].ticker
               /\ active_positions[i].date = active_positions[j].date) => i = j

\* both legs of an expiry are in the manifest and each has a record on the same day
C23_Witness ==
    /\ pc = "tracked"
    /\ \E i, j \in 1..Len(manifest) :
          /\ manifest[i].expiry_date = manifest[j].expiry_date
          /\ manifest[i].target_delta = 10 /\ manifest[j].target_delta = 50
          /\ \E a, b \in 1..Len(active_positions) :
                /\ active_positions[a].ticker = manifest[i].ticker
                /\ active_positions[b].ticker = manifest[j].ticker
                /\ active_positions[a].date = active_positions[b].date

\* C24: the rows recorded under a ticker come from the gateway's answer to the
\* request sent for that ticker: the event that ended the ticker's wait and filled
\* its rows is the RESPONSE to its own request.
C24_RowsFromOwnResponse ==
    \A k \in 1..Len(all_data) :
        LET t == all_data[k].ticker
        IN  outcome[t].type = "RESPONSE" /\ outcome[t].ticker = t

\* C25: whenever collect_strategy_data has returned, no session that was started
\* is still running.
C25_StartedSessionStopped == collect_pc = "returned" => session # "started"

\* the part of C25 about the paths through the try statement: a call that reached
\* the finally clause returns with its session stopped
C25_StoppedAfterTry ==
    [][collect_pc = "finally" => session' = "stopped"]_vars

\* attempts are made one after the other, each after a failed one, none after a
\* success, at most retry_attempts of them, with a sleep of the retry delay after
\* every failed attempt that is followed by another one and after no other
RetryDiscipline ==
    /\ Len(attempt_log) <= schedule_config.retry_attempts
    /\ \A k \in 1..(Len(attempt_log) - 1) : attempt_log[k] = FALSE
    /\ job_pc = "loop" => (attempt = Len(attempt_log) + 1
                            /\ \A k \in 1..Len(attempt_log) : attempt_log[k] = FALSE)
    /\ \A s \in sleeps :
          /\ s.after \in 1..Len(attempt_log)
          /\ attempt_log[s.after] = FALSE
          /\ s.after < schedule_config.retry_attempts
          /\ s.minutes = schedule_config.retry_delay_minutes
    /\ job_pc = "done" => {s.after : s \in sleeps} = 1..(Len(attempt_log) - 1)

\* C26: a finished job has run the collection at least once and at most
\* retry_attempts times, every attempt but the last one failed, and the job slept
\* the retry delay exactly between a failed attempt and the next one.
C26_AtLeastOnceAtMostRetryAttempts ==
    /\ RetryDiscipline
    /\ job_pc = "done" => Len(attempt_log) >= 1

\* the part of C26 that does not depend on an attempt being made
C26_RetryDiscipline == RetryDiscipline

\* the part of C26 about termination
C26_Terminates == <>(job_pc = "done")

\* a job that ended with all attempts failed after sleeping between them
C26_WitnessAllFailed ==
    /\ job_pc = "done"
    /\ schedule_config.retry_attempts = 3
    /\ attempt_log = <<FALSE, FALSE, FALSE>>

\* C27: when the collection has been interrupted, every security completed before
\* the interruption is in completed_securities of the persisted progress file.
C27_CompletedPersistedOnInterrupt ==
    ten_pc = "interrupted" =>
        completed_securities \subseteq progress_file.completed_securities

\* the completed and the failed securities are disjoint, in the sets of the call, in
\* its progress dict and in the progress file
TenDisjoint ==
    /\ completed_securities \cap failed_securities = {}
    /\ progress.completed_securities \cap progress.failed_securities = {}
    /\ progress_file.completed_securities \cap progress_file.failed_securities = {}

\* one step of a call: a fetch is begun only for a security that is not completed
\* and was not fetched before in the call, a fetch that succeeds leaves the security
\* completed and not failed, and no security leaves the completed set
TenStep ==
    ten_pc \in {"loop", "fetch"} =>
        /\ fetched' # fetched =>
              /\ fetched'[Len(fetched')] \notin completed_securities
              /\ \A k \in 1..Len(fetched) : fetched[k] # fetched'[Len(fetched')]
        /\ (ten_pc = "fetch" /\ completed_securities' # completed_securities) =>
              /\ Securities[ten_idx] \in completed_securities'
              /\ Securities[ten_idx] \notin failed_securities'
              /\ Securities[ten_idx] \notin progress'.failed_securities
        /\ completed_securities \subseteq completed_securities'
        /\ progress_file.completed_securities \subseteq progress_file'.completed_securities

\* C28: from a progress record with disjoint sets, the completed and the failed
\* securities stay disjoint, a completed security is not fetched again, a failed
\* security that now succeeds moves from failed to completed, and no security is
\* removed from the completed ones.
C28_CompletedAndFailedDisjoint == []TenDisjoint /\ [][TenStep]_vars

\* a security that the progress file lists as failed has just succeeded, and another
\* security is failed
C28_Witness ==
    /\ ten_pc = "loop"
    /\ \E t \in progress_file.failed_securities :
          /\ t \in completed_securities
          /\ fetched # <<>> /\ fetched[Len(fetched)] = t
    /\ failed_securities # {}

\* C29: the calendar generator of VIXStrategyDataFetcher does not raise: its loop
\* ends with the list returned.
C29_FetcherCalendarReturns == variant = "fetcher" => cal_pc # "raised"

\* what the generator of VIXStrategyDataFetcher does instead: it never returns
C29_FetcherCalendarNeverReturns == variant = "fetcher" => cal_pc # "returned"

\* C30: while the call waits for the answer to a security's request, the rows of
\* every event it reads for that request are recorded, the rows of a partial
\* response as those of the final RESPONSE, and only a RESPONSE, a TIMEOUT (or an
\* exception) ends the wait.
C30_PartialRowsRecorded ==
    [][/\ (/\ fetch_pc = "wait"
           /\ event_queue # <<>>
           /\ event_queue' = Tail(event_queue)
           /\ Head(event_queue).ticker = FetchBatch[security_idx].ticker
           /\ ~Head(event_queue).securityError)
          => all_data' = all_data \o
                 [j \in 1..Len(Head(event_queue).fieldData) |->
                     RowData(FetchBatch[security_idx], Head(event_queue).fieldData[j])]
       /\ (fetch_pc = "wait" /\ fetch_pc' # "wait" /\ event_queue # <<>>)
          => Head(event_queue).type = "RESPONSE"]_vars

\* the part of C30 about the end of the wait: an event that is not a RESPONSE does
\* not end it
C30_WaitEndsOnResponse ==
    [][(fetch_pc = "wait" /\ fetch_pc' # "wait" /\ event_queue # <<>>)
          => Head(event_queue).type = "RESPONSE"]_vars

=========================================================================
